---- MODULE Spec2Model ----
(***************************************************************************)
(* Model of the log-monitor Lambda of src/main.go.                         *)
(*                                                                         *)
(* src/main.go holds two variants of the program one after the other:     *)
(*   variant "A" (lines 1-128):   query, then PutMetricAlarm when          *)
(*                                matches > 0; no metric is published.     *)
(*   variant "B" (lines 130-297): query, PutMetricData, then               *)
(*                                ensureCloudWatchAlarm when matches > 0.  *)
(* The variant is fixed at Init and never changes.                         *)
(*                                                                         *)
(* One invocation of handler is modelled step by step: LoadConfig, then    *)
(* for each target BeginProcessLogGroup, NextPage*, FinishProcessLogGroup, *)
(* AfterProcessLogGroup, and finally ReturnSummary.  The backends          *)
(* (CloudWatch Logs, CloudWatch) answer every call nondeterministically.   *)
(* The wall clock (time.Now) advances by the environment action Tick.      *)
(*                                                                         *)
(* The clock is counted in milliseconds from the handler's entry, so a     *)
(* window start may be negative; matchingEvents ([]string in the code) is  *)
(* kept as its length, the only thing the code reads from it.              *)
(***************************************************************************)
EXTENDS Integers, Sequences, FiniteSets, TLC

\* ------------------------------------------------------------------ bounds
MaxTargets == 2
MaxPages == 2
MaxClock == 1

Variants == {"A", "B"}
LogGroupNames == {"A", "B"}
SearchStrings == {"ERROR"}

\* the numbers of events one page of a FilterLogEvents answer holds
PageSizes == {0, 1}
MaxPageSize == CHOOSE x \in PageSizes : \A y \in PageSizes : y <= x

\* LogGroupSearch
LogGroupSearch == [LogGroupName : LogGroupNames, SearchString : SearchStrings]

\* Event.MonitoredLogGroups: every list of at most MaxTargets targets
TargetLists == UNION {[1..n -> LogGroupSearch] : n \in 0..MaxTargets}

VARIABLES
    variant,          \* which of the two programs of src/main.go runs
    targets,          \* event.MonitoredLogGroups
    now,              \* the wall clock, time.Now().UnixMilli()
    pc,               \* position of the handler
    i,                \* index of the range loop over the targets (1-based)
    totalMatches,     \* handler's totalMatches
    triggeredAlarms,  \* handler's triggeredAlarms
    matchingEvents,   \* processLogGroup: len(matchingEvents)
    hasMore,          \* paginator.HasMorePages()
    pagesFetched,     \* pages the paginator has fetched for this target
    delivered,        \* events the backend has delivered for this target
    pageFailed,       \* whether a page fetch of this target failed
    matches,          \* processLogGroup's first return value
    err,              \* processLogGroup's second return value (TRUE: non-nil)
    queries,          \* the FilterLogEvents inputs, in call order
    outcomes,         \* per processed target: whether the backend failed the
                      \* query and on which page, the events of a completed
                      \* query, and what processLogGroup returned
    metricCalls,      \* PutMetricData calls, in call order
    alarmCalls,       \* PutMetricAlarm / DeleteAlarms calls, in call order
    ret               \* the handler's return value

vars == <<variant, targets, now, pc, i, totalMatches, triggeredAlarms,
          matchingEvents, hasMore, pagesFetched, delivered, pageFailed,
          matches, err, queries, outcomes, metricCalls, alarmCalls, ret>>

NoReturn == [summary |-> "", err |-> "none"]

\* ----------------------------------------------------------- pure helpers

\* 12 hours in milliseconds
WindowMs == 12 * 60 * 60 * 1000

\* mutant of QueryWindow: the window is 12 minutes long
QueryWindowMinutes(t) == [StartTime |-> t - 12 * 60 * 1000, EndTime |-> t]

\* processLogGroup: endTime := time.Now().UnixMilli(); startTime := endTime - 12h
QueryWindow(t) == [StartTime |-> t - WindowMs, EndTime |-> t]

\* processLogGroup: the FilterLogEventsInput
FilterInput(logGroup, t) ==
    [LogGroupName  |-> logGroup.LogGroupName,
     FilterPattern |-> logGroup.SearchString,
     StartTime     |-> QueryWindow(t).StartTime,
     EndTime       |-> QueryWindow(t).EndTime]

\* processLogGroup: matchingEvents = append(matchingEvents, page.Events...)
AppendEvents(n, pageEvents) == n + pageEvents

\* mutant of PageErrorReturn: the page error is swallowed and the events
\* gathered so far are returned as the count
PageErrorSwallowed(n) == [matches |-> n, err |-> FALSE]

\* mutant of PageErrorReturn: the error is returned together with the
\* events gathered so far
PageErrorKeepsCount(n) == [matches |-> n, err |-> TRUE]

\* processLogGroup: the return on a failed page fetch
PageErrorReturn(n) == [matches |-> 0, err |-> TRUE]

\* mutant of FinalReturn: a publish error is returned to the handler
FinalReturnFailsOnPublish(n, publishErr) ==
    [matches |-> IF publishErr THEN 0 ELSE n, err |-> publishErr]

\* processLogGroup: the return after the last page (variant B: after
\* publishMetric, whose error is only logged)
FinalReturn(n, publishErr) == [matches |-> n, err |-> FALSE]

\* the metric namespace of each variant
Namespace(v) == IF v = "A" THEN "Custom/Errors" ELSE "Quaemon/Errors"

\* publishMetric: the PutMetricDataInput
MetricDataInput(logGroupName, n) ==
    [Namespace  |-> "Quaemon/Errors",
     MetricName |-> "ErrorCount",
     Dimensions |-> {[Name |-> "LogGroupName", Value |-> logGroupName]},
     Value      |-> n,
     Unit       |-> "Count"]

\* ensureCloudWatchAlarm: alarmName
AlarmName(logGroupName) == "AlarmForLogGroup-" \o logGroupName

\* ensureCloudWatchAlarm: the PutMetricAlarmInput (no Dimensions are set)
MetricAlarmInput(v, logGroupName) ==
    [AlarmName          |-> AlarmName(logGroupName),
     ComparisonOperator |-> "GreaterThanOrEqualToThreshold",
     EvaluationPeriods  |-> 1,
     MetricName         |-> "ErrorCount",
     Namespace          |-> Namespace(v),
     Dimensions         |-> {},
     Period             |-> IF v = "A" THEN 60 ELSE 300,
     Statistic          |-> "Sum",
     Threshold          |-> 1,
     ActionsEnabled     |-> TRUE,
     AlarmActions       |-> <<"arn:aws:sns:us-east-1:accnumber:topic-name">>]

\* ensureCloudWatchAlarm: the backend call it makes and the error it returns.
\* Variant A always upserts; variant B upserts when matches > 0, else deletes.
EnsureCloudWatchAlarm(v, idx, logGroupName, n, backendOk) ==
    IF v = "A" \/ n > 0
    THEN [call |-> [idx |-> idx, op |-> "PutMetricAlarm",
                    input |-> MetricAlarmInput(v, logGroupName),
                    ok |-> backendOk],
          err  |-> ~backendOk]
    ELSE [call |-> [idx |-> idx, op |-> "DeleteAlarms",
                    input |-> [AlarmNames |-> <<AlarmName(logGroupName)>>],
                    ok |-> backendOk],
          err  |-> ~backendOk]

\* handler: if err != nil { log; continue }
SkipTarget(e) == e

\* mutant of AddMatches: the total is overwritten
AddMatchesOverwrites(total, n) == n

\* handler: totalMatches += matches
AddMatches(total, n) == total + n

\* handler: if matches > 0 { ensureCloudWatchAlarm(...) }
AlarmWanted(n) == n > 0

\* mutant of CountAlarm: the counter also counts a rejected alarm call
CountAlarmAlways(triggered, alarmErr) == triggered + 1

\* handler: if err != nil { log } else { triggeredAlarms++ }
CountAlarm(triggered, alarmErr) ==
    IF alarmErr THEN triggered ELSE triggered + 1

\* mutant of NextIndex: an error leaves the loop
NextIndexBreaksOnError(idx, e) == IF e THEN Len(targets) + 1 ELSE idx + 1

\* handler: the range loop goes on to the next target, also after an error
NextIndex(idx, e) == idx + 1

\* handler: fmt.Sprintf("Processed %d log groups, found %d total matches,
\* triggered %d alarms", ...)
Summary(processed, total, triggered) ==
    "Processed " \o ToString(processed) \o " log groups, found "
        \o ToString(total) \o " total matches, triggered "
        \o ToString(triggered) \o " alarms"

\* handler: the first argument of the Sprintf
ProcessedCount(ts, outs) == Len(ts)

\* ------------------------------------------------------------------- Init
Init ==
    /\ variant \in Variants
    /\ targets \in TargetLists
    /\ now = 0
    /\ pc = "start"
    /\ i = 0
    /\ totalMatches = 0
    /\ triggeredAlarms = 0
    /\ matchingEvents = 0
    /\ hasMore = FALSE
    /\ pagesFetched = 0
    /\ delivered = 0
    /\ pageFailed = FALSE
    /\ matches = 0
    /\ err = FALSE
    /\ queries = <<>>
    /\ outcomes = <<>>
    /\ metricCalls = <<>>
    /\ alarmCalls = <<>>
    /\ ret = NoReturn

\* ---------------------------------------------------------------- actions

\* the environment: the wall clock advances.  The clock is counted from the
\* handler's entry, and the program reads it only in BeginProcessLogGroup,
\* so an advance is taken just before that read; an advance at any other
\* point shows only at the next read.
Tick ==
    /\ now < MaxClock
    /\ pc = "loop"
    /\ i <= Len(targets)
    /\ now' = now + 1
    /\ UNCHANGED <<variant, targets, pc, i, totalMatches, triggeredAlarms,
                   matchingEvents, hasMore, pagesFetched, delivered,
                   pageFailed, matches, err, queries, outcomes, metricCalls,
                   alarmCalls, ret>>

\* handler: config.LoadDefaultConfig; log.Fatalf on failure, else the clients
\* are built and the counters declared
LoadConfig ==
    /\ pc = "start"
    /\ \E cfgOk \in BOOLEAN :
          IF cfgOk
          THEN /\ pc' = "loop"
               /\ i' = 1
          ELSE /\ pc' = "fatal"
               /\ i' = i
    /\ totalMatches' = 0
    /\ triggeredAlarms' = 0
    /\ UNCHANGED <<variant, targets, now, matchingEvents, hasMore,
                   pagesFetched, delivered, pageFailed, matches, err, queries,
                   outcomes, metricCalls, alarmCalls, ret>>

\* handler calls processLogGroup for target i: the window is computed, the
\* input built and the paginator created (HasMorePages is true at first)
BeginProcessLogGroup ==
    /\ pc = "loop"
    /\ i <= Len(targets)
    /\ queries' = Append(queries,
                         [input |-> FilterInput(targets[i], now), at |-> now])
    /\ matchingEvents' = 0
    /\ hasMore' = TRUE
    /\ pagesFetched' = 0
    /\ delivered' = 0
    /\ pageFailed' = FALSE
    /\ pc' = "page"
    /\ UNCHANGED <<variant, targets, now, i, totalMatches, triggeredAlarms,
                   matches, err, outcomes, metricCalls, alarmCalls, ret>>

\* processLogGroup: one round of the paginator loop.  The backend fails the
\* page, or delivers pageEvents events and says whether a page remains.
NextPage ==
    /\ pc = "page"
    /\ hasMore
    /\ pagesFetched' = pagesFetched + 1
    /\ \E pageOk \in BOOLEAN, pageEvents \in PageSizes, more \in BOOLEAN :
          IF pageOk
          THEN /\ more => pagesFetched + 1 < MaxPages
               /\ matchingEvents' = AppendEvents(matchingEvents, pageEvents)
               /\ delivered' = delivered + pageEvents
               /\ hasMore' = more
               /\ pc' = "page"
               /\ UNCHANGED <<pageFailed, matches, err, outcomes>>
          ELSE /\ pageEvents = MaxPageSize
               /\ ~more
               /\ pageFailed' = TRUE
               /\ matches' = PageErrorReturn(matchingEvents).matches
               /\ err' = PageErrorReturn(matchingEvents).err
               /\ outcomes' = Append(outcomes,
                      [failed  |-> TRUE,
                       failedPage |-> pagesFetched + 1,
                       events  |-> 0,
                       matches |-> PageErrorReturn(matchingEvents).matches,
                       err     |-> PageErrorReturn(matchingEvents).err])
               /\ pc' = "returned"
               /\ UNCHANGED <<matchingEvents, delivered, hasMore>>
    /\ UNCHANGED <<variant, targets, now, i, totalMatches, triggeredAlarms,
                   queries, metricCalls, alarmCalls, ret>>

\* processLogGroup: the paginator is exhausted; variant B publishes the
\* metric (the backend accepts or rejects it); the count is returned
FinishProcessLogGroup ==
    /\ pc = "page"
    /\ ~hasMore
    /\ \E publishOk \in BOOLEAN :
          /\ variant = "A" => publishOk
          /\ metricCalls' =
                IF variant = "B"
                THEN Append(metricCalls,
                            [idx   |-> i,
                             input |-> MetricDataInput(targets[i].LogGroupName,
                                                       matchingEvents),
                             ok    |-> publishOk])
                ELSE metricCalls
          /\ matches' = FinalReturn(matchingEvents, ~publishOk).matches
          /\ err' = FinalReturn(matchingEvents, ~publishOk).err
          /\ outcomes' = Append(outcomes,
                 [failed  |-> FALSE,
                  failedPage |-> 0,
                  events  |-> delivered,
                  matches |-> FinalReturn(matchingEvents, ~publishOk).matches,
                  err     |-> FinalReturn(matchingEvents, ~publishOk).err])
    /\ pc' = "returned"
    /\ UNCHANGED <<variant, targets, now, i, totalMatches, triggeredAlarms,
                   matchingEvents, hasMore, pagesFetched, delivered,
                   pageFailed, queries, alarmCalls, ret>>

\* handler: the rest of the loop body after processLogGroup has returned
AfterProcessLogGroup ==
    /\ pc = "returned"
    /\ IF SkipTarget(err)
       THEN UNCHANGED <<totalMatches, triggeredAlarms, alarmCalls>>
       ELSE /\ totalMatches' = AddMatches(totalMatches, matches)
            /\ IF AlarmWanted(matches)
               THEN \E alarmOk \in BOOLEAN :
                       LET r == EnsureCloudWatchAlarm(variant, i,
                                    targets[i].LogGroupName, matches, alarmOk)
                       IN /\ alarmCalls' = Append(alarmCalls, r.call)
                          /\ triggeredAlarms' =
                                CountAlarm(triggeredAlarms, r.err)
               ELSE UNCHANGED <<triggeredAlarms, alarmCalls>>
    /\ i' = NextIndex(i, err)
    /\ pc' = "loop"
    \* the locals of this iteration go out of scope
    /\ matchingEvents' = 0
    /\ hasMore' = FALSE
    /\ pagesFetched' = 0
    /\ delivered' = 0
    /\ pageFailed' = FALSE
    /\ matches' = 0
    /\ err' = FALSE
    /\ UNCHANGED <<variant, targets, now, queries, outcomes, metricCalls, ret>>

\* handler: the loop is over; the summary is returned with a nil error
ReturnSummary ==
    /\ pc = "loop"
    /\ i > Len(targets)
    /\ ret' = [summary |-> Summary(ProcessedCount(targets, outcomes),
                                   totalMatches, triggeredAlarms),
               err     |-> "nil"]
    /\ pc' = "done"
    /\ UNCHANGED <<variant, targets, now, i, totalMatches, triggeredAlarms,
                   matchingEvents, hasMore, pagesFetched, delivered,
                   pageFailed, matches, err, queries, outcomes, metricCalls,
                   alarmCalls>>

Next ==
    \/ Tick
    \/ LoadConfig
    \/ BeginProcessLogGroup
    \/ NextPage
    \/ FinishProcessLogGroup
    \/ AfterProcessLogGroup
    \/ ReturnSummary

Spec == Init /\ [][Next]_vars

\* -------------------------------------------------- what the claims speak of

RECURSIVE SumUpTo(_, _)
\* the sum of f[1] .. f[n]
SumUpTo(f, n) == IF n = 0 THEN 0 ELSE f[n] + SumUpTo(f, n - 1)

\* the targets whose loop body has run to its end
Handled == IF pc = "returned" THEN Len(outcomes) - 1 ELSE Len(outcomes)

\* the backend answered every page of target k's query
Succeeded(k) == ~outcomes[k].failed

\* the events the backend delivered for target k's completed query
Count(k) == outcomes[k].events

\* the calls of a log that were made for target k
CallsFor(log, k) == SelectSeq(log, LAMBDA c : c.idx = k)

Upserts(k) == SelectSeq(alarmCalls,
                        LAMBDA c : c.idx = k /\ c.op = "PutMetricAlarm")

Deletes(k) == SelectSeq(alarmCalls,
                        LAMBDA c : c.idx = k /\ c.op = "DeleteAlarms")

\* the sum of the counts of the first n targets, a failed query counting 0
MatchesOfSucceeded(n) ==
    SumUpTo([k \in 1..n |-> IF Succeeded(k) THEN Count(k) ELSE 0], n)

\* the targets among the first n with a completed query, a count above 0 and
\* an upsert the backend accepted
AlarmedTargets(n) ==
    {k \in 1..n : /\ Succeeded(k)
                  /\ Count(k) > 0
                  /\ \E j \in DOMAIN alarmCalls :
                        /\ alarmCalls[j].idx = k
                        /\ alarmCalls[j].op = "PutMetricAlarm"
                        /\ alarmCalls[j].ok}

\* the metric a call refers to
MetricRef(input) ==
    [Namespace  |-> input.Namespace,
     MetricName |-> input.MetricName,
     Dimensions |-> input.Dimensions]

\* a step of the program (every action but the clock's)
ProgramStep ==
    \/ LoadConfig
    \/ BeginProcessLogGroup
    \/ NextPage
    \/ FinishProcessLogGroup
    \/ AfterProcessLogGroup
    \/ ReturnSummary

\* ------------------------------------------------------------------ claims

\* C1: the first number of the returned summary (targetsProcessed) is the
\* number of targets whose log query succeeded; a target whose query failed
\* is not counted.
C1_ProcessedCountsSucceeded ==
    pc = "done" =>
        ret.summary =
            Summary(Cardinality({k \in DOMAIN outcomes : Succeeded(k)}),
                    totalMatches, triggeredAlarms)

\* C2: a target whose query succeeds with count 0 gets exactly one
\* DeleteAlarms call for "AlarmForLogGroup-" + logGroupName and no
\* PutMetricAlarm; a target with count > 0 gets exactly one PutMetricAlarm
\* for that name and no DeleteAlarms.  Stated of variant B, the one whose
\* ensureCloudWatchAlarm holds a DeleteAlarms call.
C2_AlarmOpFollowsCount ==
    (pc = "done" /\ variant = "B") =>
        \A k \in DOMAIN outcomes :
            Succeeded(k) =>
                IF Count(k) = 0
                THEN /\ Len(Deletes(k)) = 1
                     /\ Deletes(k)[1].input.AlarmNames =
                            <<"AlarmForLogGroup-" \o targets[k].LogGroupName>>
                     /\ Len(Upserts(k)) = 0
                ELSE /\ Len(Upserts(k)) = 1
                     /\ Upserts(k)[1].input.AlarmName =
                            "AlarmForLogGroup-" \o targets[k].LogGroupName
                     /\ Len(Deletes(k)) = 0

\* C3, its state part: no PutMetricData, PutMetricAlarm or DeleteAlarms call
\* is ever made for a target whose query failed, and processLogGroup reports
\* the failure to the handler.
C3_NoCallsForFailed ==
    \A k \in DOMAIN outcomes :
        outcomes[k].failed =>
            /\ outcomes[k].err
            /\ Len(CallsFor(metricCalls, k)) = 0
            /\ Len(CallsFor(alarmCalls, k)) = 0

\* C3, its step part: the handler's step for a target whose query failed
\* leaves totalMatches, triggeredAlarms and both call logs as they are.
C3_FailedAddsNothing ==
    (pc = "returned" /\ pageFailed) =>
        /\ totalMatches' = totalMatches
        /\ triggeredAlarms' = triggeredAlarms
        /\ metricCalls' = metricCalls
        /\ alarmCalls' = alarmCalls

\* C3: for every target whose log query fails, on the first page or a later
\* one, no metric publish, no upsert and no delete is made for it, and it
\* adds 0 to totalMatches and 0 to alarmsTouched.
C3_FailedTargetIsSkipped ==
    [] C3_NoCallsForFailed /\ [][C3_FailedAddsNothing]_vars

\* C3 witness: the run has ended after one query failed on its first page
\* and another on a later page.
C3_Witness ==
    /\ pc = "done"
    /\ \E k \in DOMAIN outcomes : outcomes[k].failed /\ outcomes[k].failedPage > 1
    /\ \E k \in DOMAIN outcomes : outcomes[k].failed /\ outcomes[k].failedPage = 1

\* C4: once the clients are built, whatever fails, every target is queried
\* exactly once, in input order; the program can always take its next step
\* until the handler has returned; and it returns a summary string with a
\* nil error.
C4_EveryTargetQueriedOnce ==
    /\ pc \in {"loop", "page", "returned"} => ENABLED ProgramStep
    /\ Len(queries) <= Len(targets)
    /\ \A k \in DOMAIN queries :
          /\ queries[k].input.LogGroupName = targets[k].LogGroupName
          /\ queries[k].input.FilterPattern = targets[k].SearchString
    /\ pc = "done" =>
          /\ Len(queries) = Len(targets)
          /\ ret.err = "nil"
          /\ ret.summary =
                Summary(Len(targets), totalMatches, triggeredAlarms)

\* C4 witness: a run of two targets ended after a failed query, a rejected
\* publish or a rejected alarm call on the first target.
C4_Witness ==
    /\ pc = "done"
    /\ Len(targets) = 2
    /\ outcomes[1].failed
    /\ Succeeded(2)
    /\ \E j \in DOMAIN alarmCalls : ~alarmCalls[j].ok

\* C5: totalMatches of the summary is the sum of the counts of exactly the
\* targets whose query succeeded, whether or not their publish or alarm call
\* succeeded.
C5_TotalMatchesIsSumOfSucceeded ==
    /\ totalMatches = MatchesOfSucceeded(Handled)
    /\ pc = "done" =>
          ret.summary = Summary(ProcessedCount(targets, outcomes),
                                MatchesOfSucceeded(Len(targets)),
                                triggeredAlarms)

\* C5 witness: the run ended with two counted targets, one of them with a
\* rejected alarm call, and in variant B a rejected publish.
C5_Witness ==
    /\ pc = "done"
    /\ Len(targets) = 2
    /\ Succeeded(1) /\ Count(1) > 0
    /\ Succeeded(2) /\ Count(2) > 0
    /\ \E j \in DOMAIN alarmCalls : ~alarmCalls[j].ok
    /\ \E j \in DOMAIN metricCalls : ~metricCalls[j].ok

\* C6: alarmsTouched of the summary is the number of targets with a
\* successful query, a count above 0 and an accepted PutMetricAlarm; a
\* rejected alarm call, a count of 0 and a failed query never add to it.
C6_AlarmsTouchedCountsAcceptedUpserts ==
    /\ triggeredAlarms = Cardinality(AlarmedTargets(Handled))
    /\ pc = "done" =>
          ret.summary = Summary(ProcessedCount(targets, outcomes),
                                totalMatches,
                                Cardinality(AlarmedTargets(Len(targets))))

\* C6 witness: the run ended with one accepted and one rejected upsert.
C6_Witness ==
    /\ pc = "done"
    /\ \E j \in DOMAIN alarmCalls :
          alarmCalls[j].op = "PutMetricAlarm" /\ alarmCalls[j].ok
    /\ \E j \in DOMAIN alarmCalls :
          alarmCalls[j].op = "PutMetricAlarm" /\ ~alarmCalls[j].ok

\* C7: for a target whose query succeeded, a rejected metric publish changes
\* nothing: processLogGroup still returns the count with a nil error, the
\* alarm call made for the target is the one its count alone decides, and
\* totalMatches and alarmsTouched are the values the counts and the alarm
\* outcomes alone decide.
C7_PublishFailureChangesNothing ==
    /\ \A j \in DOMAIN metricCalls :
          LET k == metricCalls[j].idx IN
          /\ k \in DOMAIN outcomes
          /\ Succeeded(k)
          /\ metricCalls[j].input.Value = Count(k)
          /\ outcomes[k].matches = Count(k)
          /\ ~outcomes[k].err
          /\ k <= Handled =>
                /\ Len(Deletes(k)) = 0
                /\ Len(Upserts(k)) = IF Count(k) > 0 THEN 1 ELSE 0
    /\ totalMatches = MatchesOfSucceeded(Handled)
    /\ triggeredAlarms = Cardinality(AlarmedTargets(Handled))

\* C7 witness: a target with a rejected publish and a count above 0 got its
\* accepted upsert and the run has ended.
C7_Witness ==
    /\ pc = "done"
    /\ \E j \in DOMAIN metricCalls :
          /\ ~metricCalls[j].ok
          /\ Count(metricCalls[j].idx) > 0
          /\ Len(Upserts(metricCalls[j].idx)) = 1
          /\ Upserts(metricCalls[j].idx)[1].ok

\* C8: a target's query follows the pagination until no page remains and its
\* count is the total of the events of all pages; if a page fetch fails the
\* call returns an error and count 0, and the events of the earlier pages
\* are neither added to totalMatches nor published.
C8_PaginationCount ==
    /\ pc = "returned" =>
          IF pageFailed
          THEN /\ err
               /\ matches = 0
               /\ Len(CallsFor(metricCalls, i)) = 0
          ELSE /\ ~err
               /\ ~hasMore
               /\ matches = delivered
               /\ variant = "B" =>
                     /\ Len(CallsFor(metricCalls, i)) = 1
                     /\ CallsFor(metricCalls, i)[1].input.Value = delivered
    /\ \A k \in DOMAIN outcomes :
          /\ outcomes[k].failed => (outcomes[k].err /\ outcomes[k].matches = 0)
          /\ Succeeded(k) => (~outcomes[k].err /\ outcomes[k].matches = Count(k))
    /\ totalMatches = SumUpTo([k \in 1..Handled |-> outcomes[k].matches], Handled)

\* C8 witness: a query has just failed on a later page after events were
\* delivered, and an earlier target's count spans more than one page.
C8_Witness ==
    /\ pc = "returned"
    /\ pageFailed
    /\ pagesFetched >= 2
    /\ delivered > 0
    /\ \E k \in DOMAIN outcomes : Succeeded(k) /\ Count(k) > MaxPageSize

\* C9 as claimed: every target's query of one invocation uses the same
\* window, with end = the time at the start of the run and start = end - 12
\* hours, even when the clock advances between targets.  The start of the
\* run is taken as late as the claim allows: the moment the first target's
\* window is computed.
C9_WindowSharedByAllTargets ==
    \A k \in DOMAIN queries :
        /\ queries[k].input.EndTime = queries[1].at
        /\ queries[k].input.StartTime = queries[1].at - 43200000

\* C9 as amended: the window is computed once per target, when that target's
\* processLogGroup call begins: end = the clock at that moment and start =
\* end - 43,200,000 ms.
C9_WindowPerTarget ==
    \A k \in DOMAIN queries :
        /\ queries[k].input.EndTime = queries[k].at
        /\ queries[k].input.StartTime = queries[k].input.EndTime - 43200000

\* C9 witness: two targets of one invocation were queried with different
\* windows.
C9_Witness ==
    /\ Len(queries) = 2
    /\ queries[1].input.EndTime # queries[2].input.EndTime
    /\ queries[1].input.StartTime # queries[2].input.StartTime

\* C10: the alarm upserted for a target refers to exactly the metric the run
\* publishes for that target: same namespace, same metric name, and the
\* dimension LogGroupName = the target's logGroupName.  Stated of variant B,
\* the one that publishes a metric.
C10_AlarmWatchesPublishedMetric ==
    \A j \in DOMAIN alarmCalls :
        (variant = "B" /\ alarmCalls[j].op = "PutMetricAlarm") =>
            /\ alarmCalls[j].input.Dimensions =
                  {[Name  |-> "LogGroupName",
                    Value |-> targets[alarmCalls[j].idx].LogGroupName]}
            /\ \E m \in DOMAIN metricCalls :
                  /\ metricCalls[m].idx = alarmCalls[j].idx
                  /\ MetricRef(metricCalls[m].input) =
                        MetricRef(alarmCalls[j].input)

====
